---- MODULE Spec2Model ----
(***************************************************************************)
(* Tight-binding Model of z2pack/em/tb/_tb_model.py as a state machine.    *)
(*                                                                         *)
(* Python objects live in two heaps: `models` (the Model instances, by     *)
(* object id) and `hopStore` (the list objects held in Model._hop, by      *)
(* reference), so that in-place mutation (list.extend, list.append) and    *)
(* aliasing are expressible.                                               *)
(*                                                                         *)
(* Numbers: hopping amplitudes are Gaussian integers <<re, im>>, on-site   *)
(* energies integers, positions exact rationals <<num, den>>.  k-points    *)
(* are taken on the grid k = k4 / 4, where every Bloch phase               *)
(* exp(2 pi i G.k) is a power of i and the Bloch sum is exact.             *)
(*                                                                         *)
(* `last` records the latest call (method, receiver, arguments, result),   *)
(* `seen` what hamilton returned per k since the receiver's last add_hop,  *)
(* `ctor` the arguments model 1 was constructed with, `calls` the number   *)
(* of add_hop calls made.                                                  *)
(***************************************************************************)
EXTENDS Integers, Sequences, FiniteSets, TLC

VARIABLES models, hopStore, last, seen, ctor, calls

vars == <<models, hopStore, last, seen, ctor, calls>>

(***************************** bounds **************************************)
\* most Model objects alive in one behaviour
MaxModels == 2
\* most add_hop calls in one behaviour
MaxAddHop == 1
\* most orbitals a derived model may have
MaxOrb == 4
\* most hopping terms handed to the constructor
MaxInitHop == 2

(************************* complex numbers *********************************)
CZero == <<0, 0>>
CAdd(a, b) == <<a[1] + b[1], a[2] + b[2]>>
CMul(a, b) == <<a[1] * b[1] - a[2] * b[2], a[1] * b[2] + a[2] * b[1]>>
\* t.conjugate()
conjugate(t) == <<t[1], -t[2]>>

(***************************** 3-vectors ***********************************)
VZero == <<0, 0, 0>>
VAdd(a, b) == <<a[1] + b[1], a[2] + b[2], a[3] + b[3]>>
VNeg(a) == <<-a[1], -a[2], -a[3]>>
VSub(a, b) == VAdd(a, VNeg(b))
Dot(a, b) == a[1] * b[1] + a[2] * b[2] + a[3] * b[3]

(****************************** rationals **********************************)
RECURSIVE Gcd(_, _)
Gcd(a, b) == IF b = 0 THEN a ELSE Gcd(b, a % b)
Abs(a) == IF a < 0 THEN -a ELSE a
\* n / d in lowest terms, d > 0
Rat(n, d) == LET g == Gcd(Abs(n), d) IN <<n \div g, d \div g>>
RAdd(a, b) == Rat(a[1] * b[2] + b[1] * a[2], a[2] * b[2])
RScale(c, a) == Rat(c * a[1], a[2])
RDivInt(a, d) == Rat(a[1], a[2] * d)
\* np.floor
RFloor(a) == a[1] \div a[2]
\* p % 1
RMod1(a) == Rat(a[1] % a[2], a[2])
RZero == <<0, 1>>

(****************************** matrices ***********************************)
Orb(N) == 0 .. (N - 1)
ZeroMat(N) == [i \in Orb(N) |-> [j \in Orb(N) |-> CZero]]
MatAdd(A, B, N) == [i \in Orb(N) |-> [j \in Orb(N) |-> CAdd(A[i][j], B[i][j])]]
MatScale(c, A, N) == [i \in Orb(N) |-> [j \in Orb(N) |-> CMul(c, A[i][j])]]

(* np.exp(2j * np.pi * np.dot(G, k)) for k = k4 / 4: i ^ (G . k4) *)
phase(G, k4) ==
    CASE Dot(G, k4) % 4 = 0 -> <<1, 0>>
      [] Dot(G, k4) % 4 = 1 -> <<0, 1>>
      [] Dot(G, k4) % 4 = 2 -> <<-1, 0>>
      [] OTHER -> <<0, -1>>

(*************************** Model.__init__ ********************************)
\* faulty variant: the mirrored terms keep t unconjugated
ConjTerms_plain(hop) ==
    [n \in 1 .. Len(hop) |-> <<hop[n][2], hop[n][1], VNeg(hop[n][3]), hop[n][4]>>]

\* [[i1, i0, -np.array(G), t.conjugate()] for i0, i1, G, t in hop]
ConjTerms(hop) ==
    [n \in 1 .. Len(hop) |->
        <<hop[n][2], hop[n][1], VNeg(hop[n][3]), conjugate(hop[n][4])>>]

\* the list stored in self._hop: a new list object, the conjugates appended
\* when add_cc
init_hop(hop, add_cc) == IF add_cc THEN hop \o ConjTerms(hop) ELSE hop

\* self._pos: pos is {} (None) or {p} (given)
init_pos(on_site, pos) ==
    IF pos = {} THEN [i \in 1 .. Len(on_site) |-> <<RZero, RZero, RZero>>]
    ELSE CHOOSE p \in pos : TRUE

\* the ValueError of __init__: pos given with another length than on_site
pos_ok(on_site, pos) == \A p \in pos : Len(p) = Len(on_site)

\* self._occ: occ is {} (None) or {n}
init_occ(on_site, occ) ==
    IF occ = {} THEN Len(on_site) \div 2 ELSE CHOOSE n \in occ : TRUE

\* The new object's fields; hop is the reference of its own _hop list.
\* The _hamilton_diag, _G_list and _hamilton_parts attributes do not exist
\* before the first _precompute: <<>> here.
Model__init__(on_site, hopref, pos, occ, uc) ==
    [on_site |-> on_site,
     pos |-> init_pos(on_site, pos),
     hop |-> hopref,
     occ |-> init_occ(on_site, occ),
     uc |-> uc,
     unchanged |-> FALSE,
     hamilton_diag |-> <<>>,
     G_list |-> <<>>,
     hamilton_parts |-> <<>>]

(***************************** _precompute *********************************)
\* np.diag(self._on_site) as a complex matrix
diag(on_site) ==
    [i \in Orb(Len(on_site)) |-> [j \in Orb(Len(on_site)) |->
        IF i = j THEN <<on_site[i + 1], 0>> ELSE CZero]]

\* list(set(tuple(G) ...)): the distinct G of the list; the order CPython
\* gives a set is fixed but arbitrary, taken here as first occurrence
RECURSIVE distinct_G(_)
distinct_G(hop) ==
    IF hop = <<>> THEN <<>>
    ELSE LET rest == distinct_G(SubSeq(hop, 1, Len(hop) - 1))
             G == hop[Len(hop)][3]
         IN IF \E i \in 1 .. Len(rest) : rest[i] = G THEN rest
            ELSE Append(rest, G)

\* the loop body: parts[i][i0, i1] += t at the first i with G_list[i] = G
add_term(parts, G_list, term) ==
    LET i == CHOOSE x \in 1 .. Len(G_list) :
                 /\ G_list[x] = term[3]
                 /\ \A y \in 1 .. (x - 1) : G_list[y] # term[3]
    IN [parts EXCEPT ![i][term[1]][term[2]] = CAdd(@, term[4])]

RECURSIVE accumulate(_, _, _)
accumulate(parts, G_list, hop) ==
    IF hop = <<>> THEN parts
    ELSE accumulate(add_term(parts, G_list, Head(hop)), G_list, Tail(hop))

\* the three cache attributes _precompute assigns
precompute(on_site, hop) ==
    LET Gl == distinct_G(hop)
    IN [hamilton_diag |-> diag(on_site),
        G_list |-> Gl,
        hamilton_parts |->
            accumulate([i \in 1 .. Len(Gl) |-> ZeroMat(Len(on_site))], Gl, hop)]

(******************************* hamilton **********************************)
RECURSIVE bloch_sum(_, _, _, _, _)
bloch_sum(H, G_list, parts, k4, N) ==
    IF G_list = <<>> THEN H
    ELSE bloch_sum(MatAdd(H, MatScale(phase(Head(G_list), k4), Head(parts), N), N),
                   Tail(G_list), Tail(parts), k4, N)

\* the matrix hamilton returns from a (valid) cache
hamilton_from(c, k4) ==
    bloch_sum(c.hamilton_diag, c.G_list, c.hamilton_parts, k4,
              Cardinality(DOMAIN c.hamilton_diag))

\* faulty variant: H = self._hamilton_diag, the sum accumulating in the cached array
diag_after_sum_inplace(hamilton_diag, H) == H

\* self._hamilton_diag after H = copy.deepcopy(self._hamilton_diag); H += ...
diag_after_sum(hamilton_diag, H) == hamilton_diag

(******************************* the heap **********************************)
Ids == 1 .. Len(models)
HopOf(m) == hopStore[models[m].hop]
NOrb(m) == Len(models[m].on_site)
\* size()
size(m) == [orbitals |-> Len(models[m].on_site), hop |-> Len(HopOf(m)),
            occ |-> models[m].occ]

NoSeen(K) == [k \in K |-> {}]

Call(op, self) ==
    [op |-> op, self |-> self, ret |-> 0, H |-> <<>>, k |-> VZero,
     terms |-> <<>>, dim |-> VZero, periodic |-> <<>>, passivation |-> "None",
     uc |-> <<>>, raised |-> FALSE]

(****************************** input sets *********************************)
\* k-points, in quarters of a reciprocal lattice vector
KGrid == {<<1, 0, 0>>, <<2, 1, 3>>}

\* hopping terms [i0, i1, G, t] callers supply (0-based orbital indices)
HopPool ==
    {<<0, 0, <<1, 0, 0>>, <<1, 0>>>>,
     <<0, 0, <<0, 0, 0>>, <<1, 1>>>>,
     <<0, 1, <<0, 0, 0>>, <<0, 1>>>>,
     <<0, 1, <<-1, 0, 0>>, <<1, 1>>>>,
     <<1, 0, <<0, 1, 0>>, <<2, 0>>>>,
     <<1, 1, <<0, 0, -1>>, <<0, 1>>>>}

Terms(N) == {t \in HopPool : t[1] < N /\ t[2] < N}

SeqsUpTo(S, n) == UNION {[1 .. l -> S] : l \in 0 .. n}

OnSiteChoices == {<<1>>, <<0, 2>>}

\* terms handed to add_hop
AddPool ==
    {<<<<0, 0, <<1, 0, 0>>, <<0, 1>>>>>>,
     <<<<0, 1, <<0, 0, 0>>, <<1, 0>>>>, <<1, 0, <<0, 0, 0>>, <<1, 0>>>>>>}
AddChoices(N) ==
    {ts \in AddPool : \A n \in 1 .. Len(ts) : ts[n][1] < N /\ ts[n][2] < N}

(******************************* actions ***********************************)
\* Model(on_site, hop, pos, occ, add_cc, uc) by the user: object 1
Construct(on_site, hop, pos, occ, add_cc, uc) ==
    /\ pos_ok(on_site, pos)
    /\ models = <<Model__init__(on_site, 1, pos, occ, uc)>>
    /\ hopStore = <<init_hop(hop, add_cc)>>
    /\ last = Call("__init__", 1)
    /\ seen = <<NoSeen(KGrid)>>
    /\ ctor = [on_site |-> on_site, hop |-> hop, pos |-> pos, occ |-> occ,
               add_cc |-> add_cc, uc |-> uc]
    /\ calls = 0

\* faulty variant: add_hop appends the conjugates as the constructor does
add_hop_list_cc(hop, terms) == hop \o terms \o ConjTerms(terms)

\* self._hop.extend(hop): the list object grows in place; no attribute is
\* assigned, so __setattr__ does not run and _unchanged keeps its value.
\* The terms are stored as handed over (their G numpy integer arrays).
add_hop_list(hop, terms) == hop \o terms

add_hop(m, terms) ==
    /\ calls < MaxAddHop
    /\ calls' = calls + 1
    /\ hopStore' = [hopStore EXCEPT ![models[m].hop] = add_hop_list(@, terms)]
    /\ last' = [Call("add_hop", m) EXCEPT !.terms = terms]
    /\ seen' = [seen EXCEPT ![m] = NoSeen(KGrid)]
    /\ UNCHANGED <<models, ctor>>

\* hamilton(k): rebuild the cache when not _unchanged, then sum
hamilton(m, k4) ==
    LET mdl == models[m]
        c == IF ~mdl.unchanged THEN precompute(mdl.on_site, HopOf(m))
             ELSE [hamilton_diag |-> mdl.hamilton_diag, G_list |-> mdl.G_list,
                   hamilton_parts |-> mdl.hamilton_parts]
        H == hamilton_from(c, k4)
    IN /\ models' = [models EXCEPT ![m] =
                        [@ EXCEPT !.unchanged = TRUE,
                                  !.hamilton_diag = diag_after_sum(c.hamilton_diag, H),
                                  !.G_list = c.G_list,
                                  !.hamilton_parts = c.hamilton_parts]]
       /\ last' = [Call("hamilton", m) EXCEPT !.k = k4, !.H = H]
       /\ seen' = [seen EXCEPT ![m][k4] = {H}]
       /\ UNCHANGED <<hopStore, ctor, calls>>

AddHop == \E m \in Ids : \E ts \in AddChoices(NOrb(m)) : add_hop(m, ts)
Hamilton == \E m \in Ids : \E k4 \in KGrid : hamilton(m, k4)

(*********** construction, add_hop and hamilton on one model ***************)
InitCache ==
    \E on_site \in OnSiteChoices :
    \E hop \in SeqsUpTo(Terms(Len(on_site)), MaxInitHop) :
    \E occ \in {{}, {Len(on_site)}} :
    \E add_cc \in BOOLEAN :
        Construct(on_site, hop, {}, occ, add_cc, <<>>)

NextCache == AddHop \/ Hamilton

SpecCache == InitCache /\ [][NextCache]_vars

(****************************** supercell **********************************)
\* for i in range(nx): for j in range(ny): for k in range(nz): [i, j, k]
Cells(dim) ==
    [n \in 1 .. (dim[1] * dim[2] * dim[3]) |->
        <<(n - 1) \div (dim[2] * dim[3]), ((n - 1) \div dim[3]) % dim[2],
          (n - 1) % dim[3]>>]

\* _pos_to_idx (its IndexError guards p >= d, which no caller passes)
pos_to_idx(pos, dim) == ((pos[1] * dim[2]) + pos[2]) * dim[3] + pos[3]

\* full_idx of supercell
full_idx(uc_pos, orbital_idx, dim, N) == pos_to_idx(uc_pos, dim) * N + orbital_idx

\* one component of np.array(full_uc1_pos / dim, dtype=int): true division
\* (from __future__ import division), then conversion to int, which
\* truncates toward zero
new_G_component(p, d) == IF p >= 0 THEN p \div d ELSE -((-p) \div d)

\* faulty variant: (p < 0) or (p > d)
outside_strict(p, d) == (p < 0) \/ (p > d)

\* (p < 0) or (p >= d)
outside(p, d) == (p < 0) \/ (p >= d)

\* any([not per and outside ...]): the hopping is cut
cut(full_uc1_pos, dim, periodic) ==
    \E a \in 1 .. 3 : ~periodic[a] /\ outside(full_uc1_pos[a], dim[a])

\* the terms one original term contributes from the cell uc0_pos: none or one
cell_term(uc0_pos, term, dim, periodic, N) ==
    LET full_uc1_pos == VAdd(uc0_pos, term[3])
    IN IF cut(full_uc1_pos, dim, periodic) THEN <<>>
       ELSE LET new_G == [a \in 1 .. 3 |-> new_G_component(full_uc1_pos[a], dim[a])]
                uc1_pos == [a \in 1 .. 3 |-> full_uc1_pos[a] % dim[a]]
            IN <<<<full_idx(uc0_pos, term[1], dim, N),
                   full_idx(uc1_pos, term[2], dim, N), new_G, term[4]>>>>

RECURSIVE cell_hop(_, _, _, _, _)
cell_hop(uc0_pos, hop, dim, periodic, N) ==
    IF hop = <<>> THEN <<>>
    ELSE cell_term(uc0_pos, Head(hop), dim, periodic, N)
         \o cell_hop(uc0_pos, Tail(hop), dim, periodic, N)

RECURSIVE supercell_hop(_, _, _, _, _)
supercell_hop(cells, hop, dim, periodic, N) ==
    IF cells = <<>> THEN <<>>
    ELSE cell_hop(Head(cells), hop, dim, periodic, N)
         \o supercell_hop(Tail(cells), hop, dim, periodic, N)

\* _edge_detect_pos: per axis [pos == 0, pos == dim - 1]
edge_detect_pos(pos, dim) == [a \in 1 .. 3 |-> <<pos[a] = 0, pos[a] = dim[a] - 1>>]

\* the caller's passivation function; "None" is the default zero vector,
\* "bottom_x" a caller's function adding 1 on the cells at the lower x edge
passivation_value(passivation, edges, N) ==
    [o \in 1 .. N |-> IF passivation = "bottom_x" /\ edges[1][1] THEN 1 ELSE 0]

RECURSIVE supercell_on_site(_, _, _, _)
supercell_on_site(cells, on_site, dim, passivation) ==
    IF cells = <<>> THEN <<>>
    ELSE [o \in 1 .. Len(on_site) |->
            on_site[o] + passivation_value(passivation,
                            edge_detect_pos(Head(cells), dim), Len(on_site))[o]]
         \o supercell_on_site(Tail(cells), on_site, dim, passivation)

\* tmp_offset + p, with reduced_pos p / dim
RECURSIVE supercell_pos(_, _, _)
supercell_pos(cells, pos, dim) ==
    IF cells = <<>> THEN <<>>
    ELSE [o \in 1 .. Len(pos) |->
            [a \in 1 .. 3 |-> RAdd(Rat(Head(cells)[a], dim[a]),
                                   RDivInt(pos[o][a], dim[a]))]]
         \o supercell_pos(Tail(cells), pos, dim)

\* new_occ = sum(dim) * self._occ
supercell_occ(occ, dim) == (dim[1] + dim[2] + dim[3]) * occ

\* self._uc * dim: numpy broadcasting scales column c by dim[c]
supercell_uc(uc, dim) ==
    IF uc = <<>> THEN <<>>
    ELSE [r \in 1 .. 3 |-> [c \in 1 .. 3 |-> uc[r][c] * dim[c]]]

(********************************* trs *************************************)
\* faulty variant: the mirrored term keeps the direction i0 -> i1
trs_term_unswapped(term, idx_offset) ==
    <<term[1] + idx_offset, term[2] + idx_offset, VNeg(term[3]), term[4]>>

\* [i1 + idx_offset, i0 + idx_offset, -G, t]
trs_term(term, idx_offset) ==
    <<term[2] + idx_offset, term[1] + idx_offset, VNeg(term[3]), term[4]>>

trs_mirror(hop, idx_offset) == [n \in 1 .. Len(hop) |-> trs_term(hop[n], idx_offset)]

\* faulty variant: new_hop = self._hop, the same list object
copy_alias(store, ref) == [store |-> store, ref |-> ref]

\* copy.deepcopy(self._hop): a new list object holding the same terms
copy_deepcopy(store, ref) == [store |-> Append(store, store[ref]), ref |-> Len(store) + 1]

(******************************* change_uc *********************************)
Det3(M) ==
    M[1][1] * (M[2][2] * M[3][3] - M[2][3] * M[3][2])
    - M[1][2] * (M[2][1] * M[3][3] - M[2][3] * M[3][1])
    + M[1][3] * (M[2][1] * M[3][2] - M[2][2] * M[3][1])

\* the cofactor of M at row r, column c
Cofactor(M, r, c) ==
    LET r1 == IF r = 1 THEN 2 ELSE 1
        r2 == IF r = 3 THEN 2 ELSE 3
        c1 == IF c = 1 THEN 2 ELSE 1
        c2 == IF c = 3 THEN 2 ELSE 3
        minor == M[r1][c1] * M[r2][c2] - M[r1][c2] * M[r2][c1]
    IN IF (r + c) % 2 = 0 THEN minor ELSE -minor

\* la.solve(uc, p) for det(uc) = 1: the adjugate of uc applied to p
solve(uc, p) ==
    [r \in 1 .. 3 |->
        RAdd(RAdd(RScale(Cofactor(uc, 1, r), p[1]), RScale(Cofactor(uc, 2, r), p[2])),
             RScale(Cofactor(uc, 3, r), p[3]))]

\* np.dot(self._uc, uc)
change_uc_uc(self_uc, uc) ==
    IF self_uc = <<>> THEN <<>>
    ELSE [r \in 1 .. 3 |-> [c \in 1 .. 3 |->
            self_uc[r][1] * uc[1][c] + self_uc[r][2] * uc[2][c] + self_uc[r][3] * uc[3][c]]]

\* pos_offset: np.floor of each solved position
pos_offset(pos, uc) ==
    [o \in 1 .. Len(pos) |-> [a \in 1 .. 3 |-> RFloor(solve(uc, pos[o])[a])]]

\* new_pos = [p % 1 for p in full_new_pos]
change_uc_pos(pos, uc) ==
    [o \in 1 .. Len(pos) |-> [a \in 1 .. 3 |-> RMod1(solve(uc, pos[o])[a])]]

\* faulty variant: G + pos_offset[i0] - pos_offset[i1]
change_uc_term_swapped(term, off) ==
    <<term[1], term[2], VSub(VAdd(term[3], off[term[1] + 1]), off[term[2] + 1]), term[4]>>

\* [i0, i1, G + pos_offset[i1] - pos_offset[i0], t]
change_uc_term(term, off) ==
    <<term[1], term[2], VSub(VAdd(term[3], off[term[2] + 1]), off[term[1] + 1]), term[4]>>

change_uc_hop(hop, off) == [n \in 1 .. Len(hop) |-> change_uc_term(hop[n], off)]

(************************* the transform actions ***************************)
\* supercell(dim, periodic, passivation): a new Model with add_cc=False
supercell(m, dim, periodic, passivation) ==
    LET mdl == models[m]
        N == Len(mdl.on_site)
        cells == Cells(dim)
        new_hop == supercell_hop(cells, HopOf(m), dim, periodic, N)
        new_on_site == supercell_on_site(cells, mdl.on_site, dim, passivation)
        new_pos == supercell_pos(cells, mdl.pos, dim)
    IN /\ Len(models) < MaxModels
       /\ Len(new_on_site) <= MaxOrb
       /\ models' = Append(models,
                        Model__init__(new_on_site, Len(hopStore) + 1, {new_pos},
                                      {supercell_occ(mdl.occ, dim)},
                                      supercell_uc(mdl.uc, dim)))
       /\ hopStore' = Append(hopStore, init_hop(new_hop, FALSE))
       /\ last' = [Call("supercell", m) EXCEPT !.ret = Len(models) + 1, !.dim = dim,
                        !.periodic = periodic, !.passivation = passivation]
       /\ seen' = Append(seen, NoSeen(KGrid))
       /\ UNCHANGED <<ctor, calls>>

\* trs(): new_hop is a deep copy of self._hop, the mirrored terms appended
\* to it in place; Model() then builds its own list from new_hop.  The
\* temporary list stays in hopStore, unreferenced.
trs(m) ==
    LET mdl == models[m]
        idx_offset == Len(mdl.on_site)
        cp == copy_deepcopy(hopStore, mdl.hop)
        store1 == [cp.store EXCEPT ![cp.ref] = @ \o trs_mirror(HopOf(m), idx_offset)]
    IN /\ Len(models) < MaxModels
       /\ 2 * idx_offset <= MaxOrb
       /\ models' = Append(models,
                        Model__init__(mdl.on_site \o mdl.on_site, Len(store1) + 1,
                                      {mdl.pos \o mdl.pos}, {mdl.occ * 2}, mdl.uc))
       /\ hopStore' = Append(store1, init_hop(store1[cp.ref], FALSE))
       /\ last' = [Call("trs", m) EXCEPT !.ret = Len(models) + 1]
       /\ seen' = Append(seen, NoSeen(KGrid))
       /\ UNCHANGED <<ctor, calls>>

\* change_uc(uc): ValueError unless det(uc) = 1, else a new Model
change_uc(m, uc) ==
    LET mdl == models[m]
        off == pos_offset(mdl.pos, uc)
    IN IF Det3(uc) # 1
       THEN /\ last' = [Call("change_uc", m) EXCEPT !.uc = uc, !.raised = TRUE]
            /\ UNCHANGED <<models, hopStore, seen, ctor, calls>>
       ELSE /\ Len(models) < MaxModels
            /\ models' = Append(models,
                             Model__init__(mdl.on_site, Len(hopStore) + 1,
                                           {change_uc_pos(mdl.pos, uc)}, {mdl.occ},
                                           change_uc_uc(mdl.uc, uc)))
            /\ hopStore' = Append(hopStore, init_hop(change_uc_hop(HopOf(m), off), FALSE))
            /\ last' = [Call("change_uc", m) EXCEPT !.ret = Len(models) + 1, !.uc = uc]
            /\ seen' = Append(seen, NoSeen(KGrid))
            /\ UNCHANGED <<ctor, calls>>

I3 == <<<<1, 0, 0>>, <<0, 1, 0>>, <<0, 0, 1>>>>
\* identity, a shear (det 1) and a doubling (det 2: rejected)
UcChoices == {I3, <<<<1, 1, 0>>, <<0, 1, 0>>, <<0, 0, 1>>>>,
              <<<<2, 0, 0>>, <<0, 1, 0>>, <<0, 0, 1>>>>}
\* (dim, periodic, passivation) of the supercell calls: the 1x1x1 cell under
\* every choice of the flags, and a doubled cell: periodic, cut along x,
\* and passivated
SupercellArgs ==
    {<<<<1, 1, 1>>, periodic, "None">> : periodic \in [1 .. 3 -> BOOLEAN]}
    \cup {<<<<2, 1, 1>>, <<TRUE, TRUE, TRUE>>, "None">>,
          <<<<2, 1, 1>>, <<FALSE, TRUE, TRUE>>, "None">>,
          <<<<2, 1, 1>>, <<TRUE, TRUE, TRUE>>, "bottom_x">>}

Supercell ==
    \E m \in Ids : \E a \in SupercellArgs : supercell(m, a[1], a[2], a[3])
Trs == \E m \in Ids : trs(m)
ChangeUc == \E m \in Ids : \E uc \in UcChoices : change_uc(m, uc)

(********************* a model and the models derived **********************)
DeriveHopLists ==
    {<<<<0, 0, <<1, 0, 0>>, <<1, 0>>>>>>,
     <<<<0, 0, <<1, 0, 0>>, <<1, 0>>>>, <<0, 0, <<0, 0, 0>>, <<1, 1>>>>>>,
     <<<<0, 1, <<0, 0, 0>>, <<0, 1>>>>>>,
     <<<<0, 1, <<-1, 0, 0>>, <<1, 1>>>>>>,
     <<<<0, 1, <<-1, 0, 0>>, <<1, 1>>>>, <<1, 0, <<0, 1, 0>>, <<2, 0>>>>>>,
     <<<<1, 1, <<0, 0, -1>>, <<0, 1>>>>, <<0, 1, <<0, 0, 0>>, <<0, 1>>>>>>}
DeriveHops(N) ==
    {h \in DeriveHopLists : \A n \in 1 .. Len(h) : h[n][1] < N /\ h[n][2] < N}

\* pos, occ, uc and add_cc as handed to the constructor: all defaults;
\* positions with integer components, occ and uc given, no conjugates;
\* fractional positions
DeriveCfgs(N) ==
    {[pos |-> {}, occ |-> {}, uc |-> <<>>, add_cc |-> TRUE],
     [pos |-> {[o \in 1 .. N |-> <<<<o - 1, 1>>, RZero, RZero>>]},
      occ |-> {N}, uc |-> I3, add_cc |-> FALSE],
     [pos |-> {[o \in 1 .. N |-> <<<<1, 2 * o>>, <<o - 1, 2>>, RZero>>]},
      occ |-> {}, uc |-> <<>>, add_cc |-> TRUE]}

InitDerive ==
    \E on_site \in OnSiteChoices :
    \E hop \in DeriveHops(Len(on_site)) :
    \E cfg \in DeriveCfgs(Len(on_site)) :
        Construct(on_site, hop, cfg.pos, cfg.occ, cfg.add_cc, cfg.uc)

\* the terms add_hop is handed here
DeriveAdd == <<<<0, 0, <<1, 0, 0>>, <<0, 1>>>>>>
AddHopDerived == \E m \in Ids : add_hop(m, DeriveAdd)

NextDerive == Supercell \/ Trs \/ ChangeUc \/ AddHopDerived

SpecDerive == InitDerive /\ [][NextDerive]_vars

(************************** reading a Hamiltonian **************************)
\* the coefficient matrix M_G of a hopping list (zero when G does not occur)
Coef(on_site, hop, G) ==
    LET c == precompute(on_site, hop)
    IN IF \E i \in 1 .. Len(c.G_list) : c.G_list[i] = G
       THEN c.hamilton_parts[CHOOSE i \in 1 .. Len(c.G_list) : c.G_list[i] = G]
       ELSE ZeroMat(Len(on_site))

\* every G of a hopping list, and its negative
GsOf(hop) == {hop[n][3] : n \in 1 .. Len(hop)} \cup {VNeg(hop[n][3]) : n \in 1 .. Len(hop)}

\* the Bloch sum over a whole hopping list, term by term
RECURSIVE TermSum(_, _, _, _)
TermSum(hop, k4, i, j) ==
    IF hop = <<>> THEN CZero
    ELSE CAdd(IF Head(hop)[1] = i /\ Head(hop)[2] = j
              THEN CMul(Head(hop)[4], phase(Head(hop)[3], k4)) ELSE CZero,
              TermSum(Tail(hop), k4, i, j))

BlochOf(on_site, hop, k4) ==
    [i \in Orb(Len(on_site)) |-> [j \in Orb(Len(on_site)) |->
        CAdd(IF i = j THEN <<on_site[i + 1], 0>> ELSE CZero, TermSum(hop, k4, i, j))]]

\* no add_hop since model 1 was constructed
NoAddHopYet == Len(HopOf(1)) = Len(init_hop(ctor.hop, ctor.add_cc))

(***************************************************************************)
(* C1: a hamilton(k) call made after add_hop returns the Bloch sum over    *)
(* all hopping terms stored at the time of the call, never one computed    *)
(* from the list as it was before the add_hop.                             *)
(***************************************************************************)
C1_HamiltonReflectsAddHop ==
    last.op = "hamilton" =>
        last.H = BlochOf(models[last.self].on_site, HopOf(last.self), last.k)

(***************************************************************************)
(* C5: a model constructed with add_cc = True and not changed by add_hop   *)
(* is Hermitian: D is real and diagonal, M_G[i,j] = conj(M_{-G}[j,i]) for  *)
(* every G, and every matrix hamilton returns equals its conjugate         *)
(* transpose.                                                              *)
(***************************************************************************)
C5_Hermitian ==
    (ctor.add_cc /\ NoAddHopYet) =>
        LET os == models[1].on_site
            N == Len(os)
            hop == HopOf(1)
        IN /\ \A i, j \in Orb(N) :
                diag(os)[i][j] = IF i = j THEN <<os[i + 1], 0>> ELSE CZero
           /\ \A G \in GsOf(hop) : \A i, j \in Orb(N) :
                Coef(os, hop, G)[i][j] = conjugate(Coef(os, hop, VNeg(G))[j][i])
           /\ last.op = "hamilton" =>
                \A i, j \in Orb(N) : last.H[i][j] = conjugate(last.H[j][i])

\* two supplied terms share (i0, i1, G), with a complex amplitude, and
\* hamilton was evaluated
C5_Witness ==
    /\ ctor.add_cc /\ NoAddHopYet
    /\ last.op = "hamilton"
    /\ Len(ctor.hop) = 2 /\ ctor.hop[1] = ctor.hop[2]
    /\ ctor.hop[1][4][2] # 0
    /\ \E i, j \in Orb(NOrb(1)) : last.H[i][j][2] # 0

(***************************************************************************)
(* C7: construction with add_cc = True stores the H supplied terms         *)
(* followed by their H conjugates (size().hop = 2 H), size().orbitals = N  *)
(* and size().occ is the supplied occ or N // 2; add_hop(terms) appends    *)
(* exactly terms, adding no conjugates.                                    *)
(***************************************************************************)
C7_Constructed ==
    (last.op = "__init__" /\ ctor.add_cc) =>
        LET H == Len(ctor.hop)
        IN /\ size(1).hop = 2 * H
           /\ \A n \in 1 .. H :
                /\ HopOf(1)[n] = ctor.hop[n]
                /\ HopOf(1)[H + n] = <<ctor.hop[n][2], ctor.hop[n][1],
                                       VNeg(ctor.hop[n][3]),
                                       <<ctor.hop[n][4][1], -ctor.hop[n][4][2]>>>>
           /\ size(1).orbitals = Len(ctor.on_site)
           /\ size(1).occ = IF ctor.occ = {} THEN Len(ctor.on_site) \div 2
                            ELSE CHOOSE n \in ctor.occ : TRUE

C7_AddHopStep ==
    last'.op = "add_hop" =>
        LET m == last'.self
        IN /\ Len(hopStore'[models'[m].hop]) = size(m).hop + Len(last'.terms)
           /\ hopStore'[models'[m].hop] = HopOf(m) \o last'.terms
           /\ Len(models'[m].on_site) = size(m).orbitals
           /\ models'[m].occ = size(m).occ

C7_Size == []C7_Constructed /\ [][C7_AddHopStep]_vars

\* two terms were added to a model built from supplied terms with add_cc
C7_Witness ==
    /\ last.op = "add_hop" /\ Len(last.terms) = 2
    /\ ctor.add_cc /\ Len(ctor.hop) = 2 /\ ctor.occ = {}
    /\ size(1).hop = 6

(***************************************************************************)
(* C8: hamilton is a pure function of k while no add_hop intervenes: a     *)
(* call on a built cache leaves the cached diagonal, G list and per-G      *)
(* matrices as they were and returns D + sum_G M_G phase(G, k) of them;    *)
(* no call changes on_site, the hopping list or occ; and a call returns    *)
(* what the earlier calls with the same k returned.                        *)
(***************************************************************************)
C8_HamiltonStep ==
    last'.op = "hamilton" =>
        LET m == last'.self
            N == NOrb(m)
        IN /\ models[m].unchanged =>
                /\ models'[m] = models[m]
                /\ \A i, j \in Orb(N) :
                     last'.H[i][j] =
                        LET c == models[m]
                            S[n \in 0 .. Len(c.G_list)] ==
                                IF n = 0 THEN c.hamilton_diag[i][j]
                                ELSE CAdd(S[n - 1],
                                          CMul(c.hamilton_parts[n][i][j],
                                               phase(c.G_list[n], last'.k)))
                        IN S[Len(c.G_list)]
           /\ models'[m].on_site = models[m].on_site
           /\ models'[m].occ = models[m].occ
           /\ models'[m].hop = models[m].hop
           /\ hopStore' = hopStore
           /\ \A H \in seen[m][last'.k] : last'.H = H

C8_HamiltonPure == [][C8_HamiltonStep]_vars

\* hamilton was called for both k-points, again for the first, and the two
\* matrices differ
C8_Witness ==
    /\ last.op = "hamilton" /\ last.k = <<1, 0, 0>>
    /\ seen[1][<<2, 1, 3>>] # {}
    /\ seen[1][<<2, 1, 3>>] # seen[1][<<1, 0, 0>>]
    /\ models[1].unchanged

(************************ claims on derived models *************************)
CoefOf(m, G) == Coef(models[m].on_site, HopOf(m), G)
BlochM(m, k4) == BlochOf(models[m].on_site, HopOf(m), k4)
Derived == {"supercell", "trs", "change_uc"}

(***************************************************************************)
(* C2: supercell, trs and change_uc leave every existing model (on_site,   *)
(* pos, occ, uc, its hopping list) as it was; no two models hold the same  *)
(* list object; add_hop on one model changes no other model's list.        *)
(***************************************************************************)
C2_Step ==
    /\ last'.op \in Derived =>
            \A m \in Ids : /\ models'[m] = models[m]
                           /\ hopStore'[models[m].hop] = hopStore[models[m].hop]
    /\ last'.op = "add_hop" =>
            \A m \in Ids \ {last'.self} :
                /\ models'[m] = models[m]
                /\ hopStore'[models'[m].hop] = hopStore[models[m].hop]
    /\ \A a, b \in 1 .. Len(models') : a # b => models'[a].hop # models'[b].hop

C2_TransformsOwnTheirStorage == [][C2_Step]_vars

\* add_hop on the original after a model was derived from it
C2_Witness ==
    /\ Len(models) = 2 /\ last.op = "add_hop" /\ last.self = 1
    /\ Len(HopOf(2)) >= 2
    /\ NOrb(2) = 2 * NOrb(1)

(***************************************************************************)
(* C3 (amended): m.supercell([1,1,1], periodic) keeps the N orbitals and   *)
(* on-site energies, and its coefficient matrix M_G equals that of m for   *)
(* every G that is zero along every non-periodic axis, and is zero for     *)
(* every other G: those terms cross the border and are cut.  With all      *)
(* three flags true every M_G, and so hamilton(k), is reproduced.          *)
(***************************************************************************)
C3_Case ==
    last.op = "supercell" /\ last.dim = <<1, 1, 1>> /\ last.passivation = "None"

C3_UnitSupercell ==
    C3_Case =>
        LET m == last.self
            r == last.ret
            inside(G) == \A a \in 1 .. 3 : last.periodic[a] \/ G[a] = 0
        IN /\ NOrb(r) = NOrb(m)
           /\ models[r].on_site = models[m].on_site
           /\ \A G \in GsOf(HopOf(m)) \cup GsOf(HopOf(r)) :
                CoefOf(r, G) = IF inside(G) THEN CoefOf(m, G) ELSE ZeroMat(NOrb(m))
           /\ (\A a \in 1 .. 3 : last.periodic[a]) =>
                \A k4 \in KGrid : BlochM(r, k4) = BlochM(m, k4)

\* C3 as stated: every M_G is reproduced whatever the flags
C3_Original ==
    C3_Case =>
        /\ NOrb(last.ret) = NOrb(last.self)
        /\ models[last.ret].on_site = models[last.self].on_site
        /\ \A G \in GsOf(HopOf(last.self)) \cup GsOf(HopOf(last.ret)) :
                CoefOf(last.ret, G) = CoefOf(last.self, G)

\* a 1x1x1 supercell cut along x of a model with a hopping along x and one
\* inside the cell
C3_Witness ==
    /\ C3_Case /\ ~last.periodic[1] /\ last.periodic[2]
    /\ \E n \in 1 .. Len(HopOf(last.self)) : HopOf(last.self)[n][3][1] # 0
    /\ Len(HopOf(last.ret)) >= 1
    /\ Len(HopOf(last.ret)) < Len(HopOf(last.self))

(***************************************************************************)
(* C4 (amended): m.change_uc(identity) keeps the on-site energies and      *)
(* turns every term (i0, i1, G, t) into (i0, i1, G + floor(pos[i1]) -      *)
(* floor(pos[i0]), t); when all orbital positions have the same integer    *)
(* part (e.g. all lie in [0,1)) every M_G, and so hamilton(k), is that of  *)
(* m.                                                                      *)
(***************************************************************************)
C4_Case == last.op = "change_uc" /\ ~last.raised /\ last.uc = I3

Floor3(p) == <<p[1][1] \div p[1][2], p[2][1] \div p[2][2], p[3][1] \div p[3][2]>>
SameCell(m) ==
    \A a, b \in 1 .. NOrb(m) : Floor3(models[m].pos[a]) = Floor3(models[m].pos[b])

C4_IdentityChangeUc ==
    C4_Case =>
        LET m == last.self
            r == last.ret
            pos == models[m].pos
        IN /\ models[r].on_site = models[m].on_site
           /\ Len(HopOf(r)) = Len(HopOf(m))
           /\ \A n \in 1 .. Len(HopOf(m)) :
                LET t == HopOf(m)[n]
                IN HopOf(r)[n] =
                     <<t[1], t[2],
                       VSub(VAdd(t[3], Floor3(pos[t[2] + 1])), Floor3(pos[t[1] + 1])),
                       t[4]>>
           /\ SameCell(m) =>
                /\ \A G \in GsOf(HopOf(m)) \cup GsOf(HopOf(r)) : CoefOf(r, G) = CoefOf(m, G)
                /\ \A k4 \in KGrid : BlochM(r, k4) = BlochM(m, k4)

\* C4 as stated: whatever the positions, no M_G changes
C4_Original ==
    C4_Case =>
        /\ models[last.ret].on_site = models[last.self].on_site
        /\ \A G \in GsOf(HopOf(last.self)) \cup GsOf(HopOf(last.ret)) :
                CoefOf(last.ret, G) = CoefOf(last.self, G)

\* the identity applied to a model with an orbital at [1, 0, 0] and a
\* hopping between the two orbitals
C4_Witness ==
    /\ C4_Case /\ ~SameCell(last.self)
    /\ \E n \in 1 .. Len(HopOf(last.self)) :
            HopOf(last.self)[n][1] # HopOf(last.self)[n][2]

(***************************************************************************)
(* C6 (amended): m.trs() has 2N orbitals, no term joins an index < N with  *)
(* an index >= N, the upper-left block is m's H(k), and the lower-right    *)
(* block is the TRANSPOSE of m's H(-k): its coefficient matrix for G has   *)
(* entry [i,j] equal to M_{-G}[j,i].                                       *)
(***************************************************************************)
C6_Trs ==
    last.op = "trs" =>
        LET m == last.self
            r == last.ret
            N == NOrb(m)
        IN /\ NOrb(r) = 2 * N
           /\ \A n \in 1 .. Len(HopOf(r)) :
                (HopOf(r)[n][1] < N) <=> (HopOf(r)[n][2] < N)
           /\ \A G \in GsOf(HopOf(m)) : \A i, j \in Orb(N) :
                /\ CoefOf(r, G)[i][j] = CoefOf(m, G)[i][j]
                /\ CoefOf(r, G)[i + N][j + N] = CoefOf(m, VNeg(G))[j][i]
           /\ \A k4 \in KGrid : \A i, j \in Orb(N) :
                /\ BlochM(r, k4)[i][j] = BlochM(m, k4)[i][j]
                /\ BlochM(r, k4)[i + N][j + N] = BlochM(m, VNeg(k4))[j][i]

\* C6 as stated: the lower block's matrix for G is M_{-G} itself
C6_Original ==
    last.op = "trs" =>
        LET m == last.self
            r == last.ret
            N == NOrb(m)
        IN /\ NOrb(r) = 2 * N
           /\ \A n \in 1 .. Len(HopOf(r)) :
                (HopOf(r)[n][1] < N) <=> (HopOf(r)[n][2] < N)
           /\ \A G \in GsOf(HopOf(m)) : \A i, j \in Orb(N) :
                /\ CoefOf(r, G)[i][j] = CoefOf(m, G)[i][j]
                /\ CoefOf(r, G)[i + N][j + N] = CoefOf(m, VNeg(G))[i][j]

\* trs of a two-orbital model one of whose M_G is not symmetric
C6_Witness ==
    /\ last.op = "trs" /\ NOrb(last.self) = 2
    /\ \E G \in GsOf(HopOf(last.self)) :
            CoefOf(last.self, G)[0][1] # CoefOf(last.self, G)[1][0]

(***************************************************************************)
(* C9: every term supercell emits preserves the hopping graph: for each    *)
(* cell c and each kept term (i0, i1, G, t), with d = c + G and            *)
(* w = d mod dim, the emitted term is (lin(c) N + i0, lin(w) N + i1,       *)
(* new_G, t) with new_G * dim + w = d on every axis; all indices lie in    *)
(* [0, N dim.x dim.y dim.z).                                               *)
(***************************************************************************)
C9_SupercellPreservesGraph ==
    last.op = "supercell" =>
        LET m == last.self
            r == last.ret
            N == NOrb(m)
            dim == last.dim
            lin(c) == ((c[1] * dim[2]) + c[2]) * dim[3] + c[3]
            cells == {<<x, y, z>> : x \in 0 .. dim[1] - 1, y \in 0 .. dim[2] - 1,
                                    z \in 0 .. dim[3] - 1}
        IN /\ \A c \in cells : \A n \in 1 .. Len(HopOf(m)) :
                LET t == HopOf(m)[n]
                    d == VAdd(c, t[3])
                    w == <<d[1] % dim[1], d[2] % dim[2], d[3] % dim[3]>>
                    kept == \A a \in 1 .. 3 :
                                last.periodic[a] \/ (0 <= d[a] /\ d[a] < dim[a])
                IN kept =>
                    \E e \in 1 .. Len(HopOf(r)) :
                        /\ HopOf(r)[e][1] = lin(c) * N + t[1]
                        /\ HopOf(r)[e][2] = lin(w) * N + t[2]
                        /\ HopOf(r)[e][4] = t[4]
                        /\ \A a \in 1 .. 3 : HopOf(r)[e][3][a] * dim[a] + w[a] = d[a]
           /\ \A e \in 1 .. Len(HopOf(r)) :
                /\ HopOf(r)[e][1] \in Orb(N * dim[1] * dim[2] * dim[3])
                /\ HopOf(r)[e][2] \in Orb(N * dim[1] * dim[2] * dim[3])

(***************************************************************************)
(* C10: 0 <= occ <= N in every model reachable from a model satisfying it  *)
(* by supercell, trs, change_uc and add_hop.                               *)
(***************************************************************************)
C10_OccWithinOrbitals ==
    \A m \in Ids : 0 <= models[m].occ /\ models[m].occ <= NOrb(m)

====
